---- MODULE Spec2Model ----
(***************************************************************************)
(* Model of bot.py: the /download handler of the HLS downloader bot.       *)
(*                                                                         *)
(* One handler invocation is one Job.  A Job loads the page in a headless  *)
(* browser and sniffs the first *.m3u8 response, follows a master playlist *)
(* to its first rendition, downloads every segment into seg%05d.ts in the  *)
(* process's working directory, writes the concat manifest inputs.txt,     *)
(* runs ffmpeg into video.mp4, removes seg*.ts and inputs.txt, sends       *)
(* video.mp4 to the chat and removes it.                                   *)
(*                                                                         *)
(* The working directory (segfiles, manifest, video) is the one state      *)
(* shared by all Jobs; everything else is local to a handler invocation.   *)
(***************************************************************************)
EXTENDS Integers, Sequences, FiniteSets, TLC

\* ------------------------------------------------------------------ bounds
MaxSegs == 2        \* longest media playlist served
MaxJobs == 2        \* handler invocations per behaviour
NThreads == 2       \* threads that may run the handler

\* ------------------------------------------------------- program constants
SliceLen == 200     \* err[:200]
CmdReprLen == 129   \* len("Command '[...]' returned non-zero exit status ") + "."

Threads == 1..NThreads

\* ------------------------------------------------------------ small helpers
Front(s) == SubSeq(s, 1, Len(s) - 1)

Range(s) == {s[i] : i \in 1..Len(s)}

RECURSIVE Digits(_)
Digits(n) == IF n < 10 THEN 1 ELSE 1 + Digits(n \div 10)

\* ---------------------------------------------------------------- strings
\* A string is a sequence of one-character strings.
RECURSIVE Join(_, _)
Join(parts, sep) ==
    IF parts = <<>> THEN <<>>
    ELSE IF Len(parts) = 1 THEN parts[1]
    ELSE parts[1] \o sep \o Join(Tail(parts), sep)

StartsWith(s, p) == Len(s) >= Len(p) /\ SubSeq(s, 1, Len(p)) = p

\* str.split(sep): always at least one part; "".split(sep) = [""].
RECURSIVE SplitAcc(_, _, _)
SplitAcc(s, sep, cur) ==
    IF s = <<>> THEN <<cur>>
    ELSE IF StartsWith(s, sep)
         THEN <<cur>> \o SplitAcc(SubSeq(s, Len(sep) + 1, Len(s)), sep, <<>>)
         ELSE SplitAcc(Tail(s), sep, Append(cur, Head(s)))

Split(s, sep) == SplitAcc(s, sep, <<>>)

\* index of the first occurrence of character c in s, 0 if none
RECURSIVE FindChar(_, _, _)
FindChar(s, c, i) ==
    IF i > Len(s) THEN 0
    ELSE IF s[i] = c THEN i ELSE FindChar(s, c, i + 1)

\* ----------------------------------------------------------------- cookies
\* c.get("name") and c.get("value"): both non-empty
CookieTruthy(c) == c.name # <<>> /\ c.value # <<>>

CookiePair(c) == c.name \o <<"=">> \o c.value

\* bot.py 71-73: "; ".join(f"{name}={value}" for the truthy cookies)
BuildCookieHeader(cookies) ==
    LET kept == SelectSeq(cookies, CookieTruthy)
    IN  Join([i \in 1..Len(kept) |-> CookiePair(kept[i])], <<";", " ">>)

HasEq(pair) == FindChar(pair, "=", 1) # 0

\* the index of the last c in s, 0 if there is none
RECURSIVE FindLastChar(_, _, _)
FindLastChar(s, c, i) ==
    IF i < 1 THEN 0
    ELSE IF s[i] = c THEN i ELSE FindLastChar(s, c, i - 1)

\* the pair split at its last "=", as pair.rsplit("=", 1) would
CookieOfPairLastEq(pair, host) ==
    LET k == FindLastChar(pair, "=", Len(pair))
    IN  [name |-> SubSeq(pair, 1, k - 1),
         value |-> SubSeq(pair, k + 1, Len(pair)),
         domain |-> host, path |-> "/"]

\* bot.py 97-101: pair.split("=", 1) into a cookie for the HLS host
CookieOfPair(pair, host) ==
    LET k == FindChar(pair, "=", 1)
    IN  [name |-> SubSeq(pair, 1, k - 1),
         value |-> SubSeq(pair, k + 1, Len(pair)),
         domain |-> host, path |-> "/"]

\* bot.py 93-101: cookie_list built from the header
ParseCookieHeader(hdr, host) ==
    LET pairs == SelectSeq(Split(hdr, <<";", " ">>), HasEq)
    IN  [i \in 1..Len(pairs) |-> CookieOfPair(pairs[i], host)]

SameKey(c, d) == c.name = d.name /\ c.domain = d.domain /\ c.path = d.path

\* a browser context's cookie jar: a cookie replaces the one of the same key
StoreCookie(jar, c) == {d \in jar : ~SameKey(c, d)} \cup {c}

\* bot.py 102: ctx.add_cookies(cookie_list)
RECURSIVE AddCookies(_, _)
AddCookies(jar, list) ==
    IF list = <<>> THEN jar
    ELSE AddCookies(StoreCookie(jar, Head(list)), Tail(list))

\* the name/value pairs a context sends with a request to url
CookiesFor(jar, url) ==
    {[name |-> c.name, value |-> c.value] : c \in {d \in jar : d.domain = url.host}}

\* the name/value pairs of the cookies ctx.cookies() returned
CapturedPairs(cookies) ==
    {[name |-> cookies[i].name, value |-> cookies[i].value] : i \in 1..Len(cookies)}

\* -------------------------------------------------------------------- URLs
\* A URL is a host and a path; a URI in a playlist is absolute or relative.
Url(h, p) == [host |-> h, path |-> p]

Rel(p) == [abs |-> FALSE, host |-> "", path |-> p]

Abs(h, p) == [abs |-> TRUE, host |-> h, path |-> p]

\* urllib.parse.urljoin(base, uri)
UrlJoin(base, uri) ==
    IF uri.abs THEN Url(uri.host, uri.path)
    ELSE Url(base.host, Front(base.path) \o uri.path)

\* bot.py 83: hls_url.rsplit("/", 1)[0] + "/"
SegmentBase(hls_url) == Url(hls_url.host, Front(hls_url.path) \o <<"">>)

\* bot.py 92: urlparse(hls_url).hostname
HostName(url) == url.host

\* --------------------------------------------------------------- playlists
\* Playlist text is a sequence of lines: a tag line or a plain (URI) line.
M3U == [tag |-> "#EXTM3U", bw |-> 0, uri |-> Rel(<<>>)]

StreamInf(b) == [tag |-> "#EXT-X-STREAM-INF", bw |-> b, uri |-> Rel(<<>>)]

ExtInf == [tag |-> "#EXTINF", bw |-> 0, uri |-> Rel(<<>>)]

Plain(u) == [tag |-> "", bw |-> 0, uri |-> u]

EmptyPlaylist ==
    [is_variant |-> FALSE, playlists |-> <<>>, segments |-> <<>>,
     expect_segment |-> FALSE, expect_playlist |-> FALSE, bw |-> 0]

\* m3u8 parser, one line: a plain line is a segment after #EXTINF, a
\* rendition after #EXT-X-STREAM-INF, and is skipped otherwise.
ParseLine(d, line) ==
    IF line.tag = "#EXT-X-STREAM-INF"
    THEN [d EXCEPT !.is_variant = TRUE, !.expect_playlist = TRUE, !.bw = line.bw]
    ELSE IF line.tag = "#EXTINF"
    THEN [d EXCEPT !.expect_segment = TRUE]
    ELSE IF line.tag # "" THEN d
    ELSE IF d.expect_segment
    THEN [d EXCEPT !.segments = Append(@, [uri |-> line.uri]),
                   !.expect_segment = FALSE]
    ELSE IF d.expect_playlist
    THEN [d EXCEPT !.playlists = Append(@, [uri |-> line.uri, bandwidth |-> d.bw]),
                   !.expect_playlist = FALSE]
    ELSE d

RECURSIVE ParseLines(_, _)
ParseLines(d, lines) ==
    IF lines = <<>> THEN d ELSE ParseLines(ParseLine(d, Head(lines)), Tail(lines))

\* bot.py 57 and 82: m3u8.loads(text)
M3u8Loads(text) == ParseLines(EmptyPlaylist, text)

\* bot.py 59: playlist.playlists[0]
FirstRendition(playlist) == playlist.playlists[1]

\* the rendition of the highest bandwidth instead of the first listed
BestRendition(playlist) ==
    CHOOSE r \in Range(playlist.playlists) :
        \A q \in Range(playlist.playlists) : q.bandwidth <= r.bandwidth

VariantUrlBest(master_url, playlist) == UrlJoin(master_url, BestRendition(playlist).uri)

\* bot.py 60: urljoin(master_url, variant_uri)
VariantUrl(master_url, playlist) == UrlJoin(master_url, FirstRendition(playlist).uri)

\* bot.py 82-84: the segment URLs, in playlist order
SegmentUrls(hls_url, playlist_text) ==
    LET pl == M3u8Loads(playlist_text)
        base == SegmentBase(hls_url)
    IN  [i \in 1..Len(pl.segments) |-> UrlJoin(base, pl.segments[i].uri)]

\* ------------------------------------------------------------------ inputs
SegNames == <<"s0.ts", "s1.ts", "s2.ts", "s3.ts", "s4.ts", "s5.ts">>

\* relative segment URIs whose names run against the index order
SegUris(n) == [i \in 1..n |-> Rel(<<SegNames[n - i + 1]>>)]

RECURSIVE MediaLines(_)
MediaLines(uris) ==
    IF uris = <<>> THEN <<>>
    ELSE <<ExtInf, Plain(Head(uris))>> \o MediaLines(Tail(uris))

MediaText(uris) == <<M3U>> \o MediaLines(uris)

\* a media playlist whose one segment lives on another host
CdnMediaText == MediaText(<<Abs("cdn", <<"x", "s0.ts">>)>>)

\* a page that is no playlist at all
JunkText == <<Plain(Rel(<<"<html>">>))>>

\* two renditions, the first listed being the one of lower bandwidth
MasterText ==
    <<M3U, StreamInf(1), Plain(Rel(<<"lo", "index.m3u8">>)),
           StreamInf(2), Plain(Abs("cdn", <<"hi", "index.m3u8">>))>>

\* a rendition tag with no URI line after it
MasterNoUriText == <<M3U, StreamInf(1)>>

\* the page each update names: every Job is given a target of its own
Pages == <<"a.example", "b.example", "c.example", "d.example">>

\* context.args[0] of the n-th update
PageOf(n) == Pages[n]

\* the URL of the *.m3u8 response the page triggers
SniffedUrl(page) == Url(page, <<"v", "master.m3u8">>)

\* what the sniffed response may hold
SniffedTexts ==
    {MediaText(SegUris(n)) : n \in 0..MaxSegs}
        \cup {CdnMediaText, JunkText, MasterText, MasterNoUriText}

\* what the server may answer for a rendition URL
VariantTexts == {MediaText(SegUris(n)) : n \in 1..MaxSegs} \cup {MasterText}

Cookie(n, v) == [name |-> n, value |-> v]

\* what ctx.cookies() may return
CookieCaptures ==
    { <<>>,
      <<Cookie(<<"s">>, <<"1">>)>>,
      <<Cookie(<<"e">>, <<>>), Cookie(<<"t">>, <<"x", "=", "y">>)>> }

\* a response may carry a Set-Cookie header
SetCookies == { <<>>, <<Cookie(<<"s">>, <<"2">>)>> }

Statuses == {200, 403}

ExitCodes == {1, 234}

\* ------------------------------------------------------------------- state
VARIABLES
    pc,        \* pc[t]: where thread t is in the handler
    job,       \* job[t]: the locals of the handler invocation on thread t
    hist,      \* hist[t]: what the invocation on thread t has done so far
    chat,      \* chat[t]: what the invocation has sent to its chat
    segfiles,  \* segfiles[i]: seg%05d.ts, for the indices that exist
    manifest,  \* inputs.txt: <<>> when absent, else <<file>>
    video,     \* video.mp4:  <<>> when absent, else <<file>>
    started    \* handler invocations so far

vars == <<pc, job, hist, chat, segfiles, manifest, video, started>>

NoUrl == Url("", <<>>)

NoJob ==
    [id |-> 0, page_url |-> "", master_url |-> NoUrl, master_text |-> <<>>, cookies |-> <<>>,
     hls_url |-> NoUrl, cookie_hdr |-> <<>>, pl_text |-> <<>>,
     segments |-> <<>>, idx |-> 0, jar |-> {}]

NoHist ==
    [reqs |-> <<>>, wrote |-> {}, foreign |-> {}, cause |-> "",
     navigations |-> 0, remuxes |-> 0, exit |-> -1]

NoChat == [replies |-> <<>>, videos |-> <<>>]

SegFile(i) == <<"seg", i>>

ManifestFile == <<"inputs.txt", 0>>

VideoFile == <<"video.mp4", 0>>

Msg(k, n) == [kind |-> k, detail |-> n]

Init ==
    /\ pc = [t \in Threads |-> "idle"]
    /\ job = [t \in Threads |-> NoJob]
    /\ hist = [t \in Threads |-> NoHist]
    /\ chat = [t \in Threads |-> NoChat]
    /\ segfiles = [i \in {} |-> 0]
    /\ manifest = <<>>
    /\ video = <<>>
    /\ started = 0

Files == <<segfiles, manifest, video>>

\* update.message.reply_text(...)
Reply(t, m) == chat' = [chat EXCEPT ![t].replies = Append(@, m)]

\* ----------------------------------------------------------- the handler
\* bot.py 138-140: no argument, the usage text and nothing else
StartNoArgs(t) ==
    /\ pc[t] = "idle"
    /\ started < MaxJobs
    /\ started' = started + 1
    /\ job' = [job EXCEPT ![t] = NoJob]
    /\ hist' = [hist EXCEPT ![t] = [NoHist EXCEPT !.cause = "usage"]]
    /\ chat' = [chat EXCEPT ![t] = [NoChat EXCEPT !.replies = <<Msg("usage", 0)>>]]
    /\ pc' = [pc EXCEPT ![t] = "done"]
    /\ UNCHANGED Files

\* bot.py 142-144: a Job starts
Start(t) ==
    /\ pc[t] = "idle"
    /\ started < MaxJobs
    /\ started' = started + 1
    /\ job' = [job EXCEPT ![t] = [NoJob EXCEPT !.id = started + 1,
                                            !.page_url = PageOf(started + 1)]]
    /\ hist' = [hist EXCEPT ![t] = NoHist]
    /\ chat' = [chat EXCEPT ![t] = [NoChat EXCEPT !.replies = <<Msg("starting", 0)>>]]
    /\ pc' = [pc EXCEPT ![t] = "navigate"]
    /\ UNCHANGED Files

\* an exception caught at bot.py 151-159 ends the handler with one reply
Fail(t, why, m) ==
    /\ hist' = [hist EXCEPT ![t].cause = why]
    /\ Reply(t, m)
    /\ pc' = [pc EXCEPT ![t] = "done"]

\* the timeout reported as any other exception
TimeoutReplyGeneric == Msg("error", 1)

\* bot.py 151-152: except PWTimeout
TimeoutReply == Msg("timeout", 0)

\* bot.py 157-159: except Exception
ErrorReply == Msg("error", 1)

\* bot.py 47-48 raising PWTimeout: no *.m3u8 response within the timeout
NavigateTimeout(t) ==
    /\ pc[t] = "navigate"
    /\ hist' = [hist EXCEPT ![t].cause = "page_timeout", ![t].navigations = @ + 1]
    /\ Reply(t, TimeoutReply)
    /\ pc' = [pc EXCEPT ![t] = "done"]
    /\ UNCHANGED <<job, Files, started>>

\* bot.py 41-54 raising anything else (the browser, the navigation)
NavigateError(t) ==
    /\ pc[t] = "navigate"
    /\ hist' = [hist EXCEPT ![t].cause = "browser_error", ![t].navigations = @ + 1]
    /\ Reply(t, ErrorReply)
    /\ pc' = [pc EXCEPT ![t] = "done"]
    /\ UNCHANGED <<job, Files, started>>

\* bot.py 41-54: the first *.m3u8 response and the context's cookies
Navigate(t, inp) ==
    /\ pc[t] = "navigate"
    /\ \E text \in inp.texts, cookies \in inp.captures :
          job' = [job EXCEPT ![t].master_url = SniffedUrl(job[t].page_url),
                             ![t].master_text = text,
                             ![t].cookies = cookies]
    /\ hist' = [hist EXCEPT ![t].navigations = @ + 1]
    /\ pc' = [pc EXCEPT ![t] = "playlist"]
    /\ UNCHANGED <<chat, Files, started>>

\* the captured cookies overwritten with the ones the header keeps
PreparedRecapture(j, final_url, text) ==
    LET hdr == BuildCookieHeader(j.cookies)
    IN  [j EXCEPT !.cookies = SelectSeq(@, CookieTruthy),
                  !.hls_url = final_url,
                  !.cookie_hdr = hdr,
                  !.pl_text = text,
                  !.segments = SegmentUrls(final_url, text),
                  !.idx = 0,
                  !.jar = AddCookies({}, ParseCookieHeader(hdr, HostName(final_url)))]

\* bot.py 82-102: the segment list and the second context's cookie jar
Prepared(j, final_url, text) ==
    LET hdr == BuildCookieHeader(j.cookies)
    IN  [j EXCEPT !.hls_url = final_url,
                  !.cookie_hdr = hdr,
                  !.pl_text = text,
                  !.segments = SegmentUrls(final_url, text),
                  !.idx = 0,
                  !.jar = AddCookies({}, ParseCookieHeader(hdr, HostName(final_url)))]

\* one HTTP exchange: what was asked, with which cookies, and the answer
Request(k, i, u, c, st, b) ==
    [kind |-> k, idx |-> i, url |-> u, cookies |-> c, status |-> st, body |-> b]

\* bot.py 58, 64-74: the sniffed playlist is a media playlist
UseMedia(t) ==
    /\ pc[t] = "playlist"
    /\ ~M3u8Loads(job[t].master_text).is_variant
    /\ job' = [job EXCEPT ![t] = Prepared(@, @.master_url, @.master_text)]
    /\ pc' = [pc EXCEPT ![t] = "fetch"]
    /\ UNCHANGED <<hist, chat, Files, started>>

\* bot.py 58-63, 68-74: a master playlist, its first rendition is fetched
FetchVariant(t, inp) ==
    LET master == M3u8Loads(job[t].master_text)
        url == VariantUrl(job[t].master_url, master)
    IN  /\ pc[t] = "playlist"
        /\ master.is_variant
        /\ master.playlists # <<>>
        /\ \E text \in inp.variants, st \in inp.statuses :
              /\ job' = [job EXCEPT ![t] = Prepared(@, url, text)]
              /\ hist' = [hist EXCEPT ![t].reqs =
                    Append(@, Request("variant", 0, url,
                                      CapturedPairs(job[t].cookies), st, text))]
        /\ pc' = [pc EXCEPT ![t] = "fetch"]
        /\ UNCHANGED <<chat, Files, started>>

\* bot.py 59 raising IndexError (no rendition), or 61-62 raising
FetchVariantError(t) ==
    /\ pc[t] = "playlist"
    /\ M3u8Loads(job[t].master_text).is_variant
    /\ \E timeout \in BOOLEAN :
          /\ timeout => M3u8Loads(job[t].master_text).playlists # <<>>
          /\ IF timeout THEN Fail(t, "variant_timeout", TimeoutReply)
                        ELSE Fail(t, "variant_error", ErrorReply)
    /\ UNCHANGED <<job, Files, started>>

\* ---------------------------------------------------- the working directory
File(owner, c) == [writer |-> owner, content |-> c]

\* the names among `names` that exist and were last written by another Job
Foreign(id, names) ==
    {n \in names :
        \/ /\ n = ManifestFile /\ manifest # <<>> /\ manifest[1].writer # id
        \/ /\ n = VideoFile /\ video # <<>> /\ video[1].writer # id
        \/ \E i \in DOMAIN segfiles : n = SegFile(i) /\ segfiles[i].writer # id}

Touch(h, id, op, names) ==
    [h EXCEPT !.foreign = @ \cup {<<op, n>> : n \in Foreign(id, names)}]

Wrote(h, id, name) ==
    [Touch(h, id, "write", {name}) EXCEPT !.wrote = @ \cup {name}]

\* what the server sends for a segment URL: the bytes stand for the URL asked
\* and the status answered
Body(url, st) == [url |-> url, status |-> st]

\* every segment written to the same file
SegIndexZero(idx) == 0

\* bot.py 108: the name of the file segment idx goes to
SegIndex(idx) == idx

\* bot.py 104-109: one turn of the loop, segment idx is fetched and written.
\* The status of the response is not looked at; a Set-Cookie of the response
\* goes into the context's jar.
FetchSegment(t, inp) ==
    LET j == job[t]
        url == j.segments[j.idx + 1]
    IN  /\ pc[t] = "fetch"
        /\ j.idx < Len(j.segments)
        /\ \E st \in inp.statuses, sc \in inp.setcookies :
              /\ job' = [job EXCEPT
                    ![t].idx = @ + 1,
                    ![t].jar = IF sc = <<>> THEN @
                               ELSE StoreCookie(@, [name |-> sc[1].name,
                                                    value |-> sc[1].value,
                                                    domain |-> url.host,
                                                    path |-> "/"])]
              /\ hist' = [hist EXCEPT ![t] =
                    [Wrote(@, j.id, SegFile(SegIndex(j.idx))) EXCEPT !.reqs =
                        Append(@, Request("segment", j.idx, url,
                                          CookiesFor(j.jar, url), st, Body(url, st)))]]
              /\ segfiles' = [i \in DOMAIN segfiles \cup {SegIndex(j.idx)} |->
                                 IF i = SegIndex(j.idx)
                                 THEN File(j.id, Body(url, st))
                                 ELSE segfiles[i]]
        /\ UNCHANGED <<pc, chat, manifest, video, started>>

\* bot.py 106-107 raising: the request failed or timed out
FetchSegmentError(t) ==
    /\ pc[t] = "fetch"
    /\ job[t].idx < Len(job[t].segments)
    /\ \E timeout \in BOOLEAN :
          IF timeout THEN Fail(t, "segment_timeout", TimeoutReply)
                     ELSE Fail(t, "segment_error", ErrorReply)
    /\ UNCHANGED <<job, Files, started>>

\* one line per seg*.ts of the directory, as a manifest built from a glob would
ManifestLinesGlob(n) == [k \in 1..Cardinality(DOMAIN segfiles) |-> k - 1]

\* the manifest numbered from 1, as range(1, len(segments) + 1) would
ManifestLinesFromOne(n) == [k \in 1..n |-> k]

\* bot.py 115-116: one line per index, in the order of range(len(segments))
ManifestLines(n) == [k \in 1..n |-> k - 1]

\* bot.py 111-116: the loop is over, inputs.txt is written
WriteManifest(t) ==
    /\ pc[t] = "fetch"
    /\ job[t].idx = Len(job[t].segments)
    /\ manifest' = <<File(job[t].id, ManifestLines(Len(job[t].segments)))>>
    /\ hist' = [hist EXCEPT ![t] = Wrote(@, job[t].id, ManifestFile)]
    /\ pc' = [pc EXCEPT ![t] = "ffmpeg"]
    /\ UNCHANGED <<job, chat, segfiles, video, started>>

\* the files ffmpeg opens for reading: inputs.txt and the files it lists
FfmpegInputs ==
    {ManifestFile} \cup
    (IF manifest = <<>> THEN {}
     ELSE {SegFile(manifest[1].content[k]) : k \in 1..Len(manifest[1].content)})

\* ffmpeg can only succeed on a manifest that lists at least one file, all of
\* them present, and (run without -y) when video.mp4 does not exist yet
FfmpegCanSucceed ==
    /\ manifest # <<>>
    /\ manifest[1].content # <<>>
    /\ \A k \in 1..Len(manifest[1].content) : manifest[1].content[k] \in DOMAIN segfiles
    /\ video = <<>>

\* the stream copy of the listed files, in manifest order
Concat == [k \in 1..Len(manifest[1].content) |-> segfiles[manifest[1].content[k]].content]

\* bot.py 118-123: ffmpeg exits 0 and video.mp4 holds the copy
Ffmpeg(t) ==
    /\ pc[t] = "ffmpeg"
    /\ FfmpegCanSucceed
    /\ video' = <<File(job[t].id, Concat)>>
    /\ hist' = [hist EXCEPT ![t] =
          [Wrote(Touch(@, job[t].id, "read", FfmpegInputs), job[t].id, VideoFile)
              EXCEPT !.remuxes = @ + 1, !.exit = 0]]
    /\ pc' = [pc EXCEPT ![t] = "cleanup"]
    /\ UNCHANGED <<job, chat, segfiles, manifest, started>>

\* the captured stderr instead, of which there is none
ErrLenStderr(code) == 0

\* len(str(e)) of the CalledProcessError of exit status code
ErrLen(code) == CmdReprLen + Digits(code)

\* bot.py 156: err[:200]
Excerpt(n) == IF n > SliceLen THEN SliceLen ELSE n

\* bot.py 154, 156: e.stderr is None (nothing captures it), so err is str(e)
FfmpegReply(code) == Msg("ffmpeg_error", Excerpt(ErrLen(code)))

\* bot.py 118-123, 153-156: ffmpeg exits non-zero, CalledProcessError
FfmpegFails(t, inp) ==
    /\ pc[t] = "ffmpeg"
    /\ \E code \in inp.codes :
          /\ hist' = [hist EXCEPT ![t] =
                [Touch(@, job[t].id, "read", FfmpegInputs)
                    EXCEPT !.remuxes = @ + 1, !.exit = code, !.cause = "ffmpeg_failed"]]
          /\ Reply(t, FfmpegReply(code))
    /\ pc' = [pc EXCEPT ![t] = "done"]
    /\ UNCHANGED <<job, Files, started>>

\* bot.py 120-123: ffmpeg never exits (it stalls on its input, or waits on
\* stdin for "Overwrite? [y/N]" when video.mp4 exists).  subprocess.run is
\* given no timeout, so the handler stays in the call.
FfmpegHangs(t) ==
    /\ pc[t] = "ffmpeg"
    /\ hist' = [hist EXCEPT ![t] =
          [Touch(@, job[t].id, "read", FfmpegInputs) EXCEPT !.remuxes = @ + 1]]
    /\ pc' = [pc EXCEPT ![t] = "hung"]
    /\ UNCHANGED <<job, chat, Files, started>>

\* bot.py 126: glob.glob("seg*.ts") + ["inputs.txt"]
CleanupNames == {SegFile(i) : i \in DOMAIN segfiles} \cup {ManifestFile}

\* bot.py 125-129: every seg*.ts of the directory and inputs.txt are removed.
\* inputs.txt is there: video.mp4 exists from this Job's ffmpeg run until its
\* own send, so no other Job's ffmpeg run, and so no other cleanup, falls in
\* between (CleanupHasManifest).
Cleanup(t) ==
    /\ pc[t] = "cleanup"
    /\ manifest # <<>>
    /\ segfiles' = [i \in {} |-> 0]
    /\ manifest' = <<>>
    /\ hist' = [hist EXCEPT ![t] = Touch(@, job[t].id, "delete", CleanupNames)]
    /\ pc' = [pc EXCEPT ![t] = "send"]
    /\ UNCHANGED <<job, chat, video, started>>

\* bot.py 161-163: video.mp4 is sent and removed
SendVideo(t) ==
    /\ pc[t] = "send"
    /\ video # <<>>
    /\ chat' = [chat EXCEPT ![t].videos = Append(@, video[1].content)]
    /\ video' = <<>>
    /\ hist' = [hist EXCEPT ![t] =
          [Touch(@, job[t].id, "read", {VideoFile}) EXCEPT !.cause = "complete"]]
    /\ pc' = [pc EXCEPT ![t] = "done"]
    /\ UNCHANGED <<job, segfiles, manifest, started>>

\* bot.py 161-162 raising (video.mp4 gone, or the upload refused): nothing
\* catches it, nothing is replied and line 163 is not reached
SendVideoError(t) ==
    /\ pc[t] = "send"
    /\ hist' = [hist EXCEPT ![t] =
          [Touch(@, job[t].id, "read", {VideoFile}) EXCEPT !.cause = "send_failed"]]
    /\ pc' = [pc EXCEPT ![t] = "done"]
    /\ UNCHANGED <<job, chat, Files, started>>

\* the handler starts over with the same Job instead of returning
ReturnRetry(t) ==
    /\ pc[t] = "done"
    /\ pc' = [pc EXCEPT ![t] = IF job[t].id = 0 THEN "idle" ELSE "navigate"]
    /\ UNCHANGED <<job, hist, chat, Files, started>>

\* the handler returns; its locals are gone, the thread takes the next update
Return(t) ==
    /\ pc[t] = "done"
    /\ pc' = [pc EXCEPT ![t] = "idle"]
    /\ job' = [job EXCEPT ![t] = NoJob]
    /\ hist' = [hist EXCEPT ![t] = NoHist]
    /\ chat' = [chat EXCEPT ![t] = NoChat]
    /\ UNCHANGED <<Files, started>>

Step(t, inp) ==
    \/ StartNoArgs(t)
    \/ Start(t)
    \/ NavigateTimeout(t)
    \/ NavigateError(t)
    \/ Navigate(t, inp)
    \/ UseMedia(t)
    \/ FetchVariant(t, inp)
    \/ FetchVariantError(t)
    \/ FetchSegment(t, inp)
    \/ FetchSegmentError(t)
    \/ WriteManifest(t)
    \/ Ffmpeg(t)
    \/ FfmpegFails(t, inp)
    \/ FfmpegHangs(t)
    \/ Cleanup(t)
    \/ SendVideo(t)
    \/ SendVideoError(t)
    \/ Return(t)

\* the dispatcher thread runs the handlers, one update after the other
Dispatcher == 1

\* every input the model draws from
AllInputs ==
    [texts |-> SniffedTexts, captures |-> CookieCaptures, variants |-> VariantTexts,
     statuses |-> Statuses, setcookies |-> SetCookies, codes |-> ExitCodes]

Next == Step(Dispatcher, AllInputs)

Spec == Init /\ [][Next]_vars

\* handlers of different updates running at once, one per thread
\* the inputs drawn when handlers overlap: playlists of every length, a
\* master, a server that answers 200 and sets no cookie
ConcInputs ==
    [texts |-> {MediaText(SegUris(n)) : n \in 1..MaxSegs} \cup {MasterText},
     captures |-> {<<>>}, variants |-> {MediaText(SegUris(1))},
     statuses |-> {200}, setcookies |-> {<<>>}, codes |-> {1}]

NextConc == \E t \in Threads : Step(t, ConcInputs)

SpecConc == Init /\ [][NextConc]_vars

\* a Job about to clean up finds inputs.txt
CleanupHasManifest == \A t \in Threads : pc[t] = "cleanup" => manifest # <<>>

\* ------------------------------------------- the cookie header on its own
\* bot.py 70-74 and 91-102 applied to every small capture: the header is
\* built from the captured cookies, then split again for the second context.
MaxCookies == 2

MaxValueLen == 2

\* a cookie name holds no "=" and no ";"; it may be empty
CookieNames == {<<>>, <<"s">>, <<"t">>, <<"s", "t">>}

\* a cookie value holds no ";"; it may be empty and may hold "="
ValueChars == {"x", "="}

CookieValues == UNION {[1..k -> ValueChars] : k \in 0..MaxValueLen}

Cookies == {Cookie(n, v) : n \in CookieNames, v \in CookieValues}

\* what ctx.cookies() may return: cookies of distinct names
CookieLists ==
    {l \in UNION {[1..k -> Cookies] : k \in 0..MaxCookies} :
        \A i, j \in 1..Len(l) : l[i].name = l[j].name => i = j}

\* bot.py 54: the cookies are captured, the playlist is a media playlist
InitCookie ==
    /\ pc = [t \in Threads |-> IF t = Dispatcher THEN "captured" ELSE "idle"]
    /\ \E l \in CookieLists :
          job = [t \in Threads |->
                    IF t = Dispatcher
                    THEN [NoJob EXCEPT !.id = 1, !.page_url = PageOf(1),
                                       !.master_url = SniffedUrl(PageOf(1)),
                                       !.hls_url = SniffedUrl(PageOf(1)),
                                       !.cookies = l]
                    ELSE NoJob]
    /\ hist = [t \in Threads |-> NoHist]
    /\ chat = [t \in Threads |-> NoChat]
    /\ segfiles = [i \in {} |-> 0]
    /\ manifest = <<>>
    /\ video = <<>>
    /\ started = 1

\* bot.py 70-74: cookie_header
BuildHeader(t) ==
    /\ pc[t] = "captured"
    /\ job' = [job EXCEPT ![t].cookie_hdr = BuildCookieHeader(job[t].cookies)]
    /\ pc' = [pc EXCEPT ![t] = "built"]
    /\ UNCHANGED <<hist, chat, Files, started>>

\* bot.py 91-102: cookie_list, added to the second context
ParseHeader(t) ==
    /\ pc[t] = "built"
    /\ job' = [job EXCEPT ![t].jar =
          AddCookies({}, ParseCookieHeader(job[t].cookie_hdr, HostName(job[t].hls_url)))]
    /\ pc' = [pc EXCEPT ![t] = "parsed"]
    /\ UNCHANGED <<hist, chat, Files, started>>

NextCookie == BuildHeader(Dispatcher) \/ ParseHeader(Dispatcher)

SpecCookie == InitCookie /\ [][NextCookie]_vars

\* ------------------------------------------------------------------ claims
IsSegmentRequest(r) == r.kind = "segment"

\* the segment requests of the Job on thread t, in the order made
SegReqs(t) == SelectSeq(hist[t].reqs, IsSegmentRequest)

\* the i-th (from 0) segment URI of the Job's playlist, resolved
PlaylistSegmentUrl(t, i) ==
    UrlJoin(SegmentBase(job[t].hls_url), M3u8Loads(job[t].pl_text).segments[i + 1].uri)

SegmentCount(t) == Len(M3u8Loads(job[t].pl_text).segments)

\* the fetch stage of the Job on thread t is over
Fetched(t) == pc[t] \in {"ffmpeg", "cleanup"}

\* C1: when a Job with N >= 1 segments hands its manifest to ffmpeg, exactly
\* one request was made per index 0..N-1, for the i-th segment URI of the
\* playlist; file seg<i> holds the body of that request; the manifest lists
\* 0..N-1 in increasing order, each once; and the copy ffmpeg writes is those
\* N bodies in that order.
C1_SegmentsInOrder ==
    \A t \in Threads :
        (Fetched(t) /\ SegmentCount(t) >= 1) =>
            LET n == SegmentCount(t)
                rs == SegReqs(t)
            IN  /\ Len(rs) = n
                /\ \A i \in 0..(n - 1) :
                      /\ rs[i + 1].idx = i
                      /\ rs[i + 1].url = PlaylistSegmentUrl(t, i)
                /\ pc[t] = "ffmpeg" =>
                      /\ \A i \in 0..(n - 1) :
                            /\ i \in DOMAIN segfiles
                            /\ segfiles[i].writer = job[t].id
                            /\ segfiles[i].content = rs[i + 1].body
                      /\ manifest # <<>>
                      /\ Len(manifest[1].content) = n
                      /\ \A k \in 1..n : manifest[1].content[k] = k - 1
                /\ pc[t] = "cleanup" =>
                      /\ video # <<>>
                      /\ video[1].content = [k \in 1..n |-> rs[k].body]

\* a Job with two or more segments, all fetched, is about to run ffmpeg
C1_Witness ==
    \E t \in Threads :
        /\ pc[t] = "ffmpeg"
        /\ SegmentCount(t) >= 2
        /\ Len(SegReqs(t)) = SegmentCount(t)

\* the Job on thread t is over: the handler has returned or raised
Terminal(t) == pc[t] = "done" /\ job[t].id # 0

\* the files now in the working directory that Job id wrote
Residue(id) ==
    {SegFile(i) : i \in {k \in DOMAIN segfiles : segfiles[k].writer = id}}
        \cup (IF manifest # <<>> /\ manifest[1].writer = id THEN {ManifestFile} ELSE {})
        \cup (IF video # <<>> /\ video[1].writer = id THEN {VideoFile} ELSE {})

Is2xx(st) == st >= 200 /\ st <= 299

\* the positions of the segment requests answered with a non-2xx status
BadFetches(t) == {k \in 1..Len(SegReqs(t)) : ~Is2xx(SegReqs(t)[k].status)}

\* C3: a segment fetch answered non-2xx aborts the Job: no later segment is
\* fetched, ffmpeg is never run, and the Job ends Failed with a segment-fetch
\* error, none of its files left.
C3_BadStatusAborts ==
    \A t \in Threads :
        BadFetches(t) # {} =>
            /\ \A k \in BadFetches(t) : k = Len(SegReqs(t))
            /\ hist[t].remuxes = 0
            /\ Terminal(t) =>
                  /\ hist[t].cause = "segment_status"
                  /\ Residue(job[t].id) = {}

\* C4: a Job that has ended, Complete or Failed, has left none of its
\* segment files, manifest or output behind.
C4_NoResidueAtEnd == \A t \in Threads : Terminal(t) => Residue(job[t].id) = {}

\* C5: a video is sent only by a Job all of whose N segment fetches were
\* answered 2xx and whose ffmpeg run exited 0.
C5_NoPartialDelivery ==
    \A t \in Threads :
        chat[t].videos # <<>> =>
            /\ Len(SegReqs(t)) = SegmentCount(t)
            /\ BadFetches(t) = {}
            /\ hist[t].exit = 0

IsVariantRequest(r) == r.kind = "variant"

VariantReqs(t) == SelectSeq(hist[t].reqs, IsVariantRequest)

\* the Job on thread t is past playlist resolution (bot.py 147 has returned)
Resolved(t) == pc[t] \in {"fetch", "ffmpeg", "cleanup", "send"}

\* C6: a master playlist with at least one rendition resolves to its first
\* listed rendition, whatever the bandwidths: one request is made, for the
\* first rendition's URI joined to the master's URL, and the Job goes on with
\* that URL and the text answered.  For the two-rendition master served
\* here that is <page>/v/lo/index.m3u8, for every Job that sniffs it.
C6_FirstRendition ==
    \A t \in Threads :
        LET master == M3u8Loads(job[t].master_text)
        IN  (Resolved(t) /\ master.is_variant /\ Len(master.playlists) >= 1) =>
                /\ Len(VariantReqs(t)) = 1
                /\ VariantReqs(t)[1].url = UrlJoin(job[t].master_url, master.playlists[1].uri)
                /\ job[t].hls_url = VariantReqs(t)[1].url
                /\ job[t].pl_text = VariantReqs(t)[1].body
                /\ job[t].master_text = MasterText =>
                      job[t].hls_url = Url(job[t].page_url, <<"v", "lo", "index.m3u8">>)

\* a Job has resolved a master of two renditions, the second the better one
C6_Witness ==
    \E t \in Threads :
        LET master == M3u8Loads(job[t].master_text)
        IN  /\ Resolved(t)
            /\ master.is_variant
            /\ Len(master.playlists) = 2
            /\ master.playlists[1].bandwidth < master.playlists[2].bandwidth

\* C7: every segment request of a Job carries exactly the cookies captured
\* by the page resolution of that Job.
C7_CookiesUnchanged ==
    \A t \in Threads :
        \A k \in 1..Len(SegReqs(t)) :
            SegReqs(t)[k].cookies = CapturedPairs(job[t].cookies)

IsDirective(line) == line.tag # ""

\* playlist text with no recognizable directive
NoDirective(text) == SelectSeq(text, IsDirective) = <<>>

\* a media playlist with zero segments
EmptyMedia(text) ==
    /\ ~NoDirective(text)
    /\ ~M3u8Loads(text).is_variant
    /\ M3u8Loads(text).segments = <<>>

\* C8: a Job whose playlist has no directive, or is a media playlist of zero
\* segments, makes no segment request, never runs ffmpeg, creates neither
\* manifest nor output, and ends with PlaylistParseError or
\* EmptyPlaylistError respectively.
C8_BadPlaylistFailsEarly ==
    \A t \in Threads :
        ((Resolved(t) \/ Terminal(t)) /\ job[t].pl_text # <<>>
            /\ (NoDirective(job[t].pl_text) \/ EmptyMedia(job[t].pl_text))) =>
            /\ SegReqs(t) = <<>>
            /\ hist[t].remuxes = 0
            /\ ManifestFile \notin hist[t].wrote
            /\ VideoFile \notin hist[t].wrote
            /\ Terminal(t) =>
                  hist[t].cause = IF NoDirective(job[t].pl_text)
                                  THEN "PlaylistParseError"
                                  ELSE "EmptyPlaylistError"

\* C9: a Job whose page load timed out without a playlist response has ended
\* with the timeout message as its one error reply, and has written no file
\* and made no request.
C9_PageTimeout ==
    \A t \in Threads :
        hist[t].cause = "page_timeout" =>
            /\ pc[t] = "done"
            /\ chat[t].replies = <<Msg("starting", 0), Msg("timeout", 0)>>
            /\ chat[t].videos = <<>>
            /\ hist[t].wrote = {}
            /\ hist[t].reqs = <<>>
            /\ Residue(job[t].id) = {}

\* a later Job's page load has timed out while an earlier Job's files are
\* still on disk
C9_Witness ==
    \E t \in Threads :
        /\ hist[t].cause = "page_timeout"
        /\ pc[t] = "done"
        /\ DOMAIN segfiles # {}

\* C10: a Job whose ffmpeg run exited non-zero has ended with an ffmpeg
\* error reply whose detail is non-empty and at most 200 characters, and has
\* sent no video.
C10_RemuxError ==
    \A t \in Threads :
        hist[t].exit > 0 =>
            /\ pc[t] = "done"
            /\ Len(chat[t].replies) = 2
            /\ chat[t].replies[2].kind = "ffmpeg_error"
            /\ chat[t].replies[2].detail >= 1
            /\ chat[t].replies[2].detail <= 200
            /\ chat[t].videos = <<>>

\* ffmpeg has exited non-zero on a manifest whose files were all there
C10_Witness ==
    \E t \in Threads :
        /\ hist[t].exit > 0
        /\ pc[t] = "done"
        /\ SegmentCount(t) >= 1
        /\ FfmpegCanSucceed

\* C11: no Job is ever stuck short of a terminal state: as long as a Job has
\* not ended, Complete or Failed, a step of its handler can be taken; in
\* particular a Job whose ffmpeg process never exits is still taken on (the
\* timeout expires and the Job fails).
C11_NeverStuck ==
    \A t \in Threads :
        (job[t].id # 0 /\ pc[t] # "done") => ENABLED Step(t, AllInputs)

\* the stages in the order the handler goes through them
Rank(p) ==
    CASE p = "idle" -> 0
      [] p = "navigate" -> 1
      [] p = "playlist" -> 2
      [] p = "fetch" -> 3
      [] p = "ffmpeg" -> 4
      [] p = "hung" -> 4
      [] p = "cleanup" -> 5
      [] p = "send" -> 6
      [] p = "done" -> 7

\* C12: a Job stays in its stage or moves to the next one, never back and
\* never past one (the variant fetch is part of the step that leaves playlist
\* parsing); from any stage it may end, and it ends Complete only from
\* delivery.  Once ended it does nothing more: no request, no ffmpeg run, no
\* file changes; its thread only takes the next update, with a new Job.
C12_StageOrder ==
    [][\A t \in Threads :
          /\ pc[t] # "done" =>
                /\ Rank(pc'[t]) \in {Rank(pc[t]), Rank(pc[t]) + 1, Rank("done")}
                /\ (pc[t] # "idle" /\ pc'[t] = "done" /\ hist'[t].cause = "complete")
                      => pc[t] = "send"
          /\ pc[t] = "done" =>
                /\ pc'[t] \in {"done", "idle"}
                /\ pc'[t] = "done" => (job'[t] = job[t] /\ hist'[t] = hist[t]
                                           /\ chat'[t] = chat[t])
                /\ pc'[t] = "idle" => (job'[t] = NoJob /\ hist'[t] = NoHist)
                /\ Files' = Files]_vars

\* a Job has ended Complete after a variant fetch and two segments
C12_Witness ==
    \E t \in Threads :
        /\ Terminal(t)
        /\ hist[t].cause = "complete"
        /\ Len(VariantReqs(t)) = 1
        /\ Len(SegReqs(t)) >= 2

\* ffmpeg has been started for the Job on thread t and has not exited
InRemux(t) == pc[t] \in {"ffmpeg", "hung"}

\* C13: when ffmpeg is started for a Job (and for as long as it runs), the
\* fetch loop of the Job is over, every file seg0..seg(N-1) and the manifest
\* have been written by the Job, and every manifest entry names a file that
\* is there.
C13_RemuxAfterFetch ==
    \A t \in Threads :
        (InRemux(t) \/ hist[t].remuxes > 0) =>
            /\ job[t].idx = Len(job[t].segments)
            /\ Len(SegReqs(t)) = Len(job[t].segments)
            /\ {SegFile(i) : i \in 0..(Len(job[t].segments) - 1)} \subseteq hist[t].wrote
            /\ ManifestFile \in hist[t].wrote
            /\ InRemux(t) =>
                  /\ manifest # <<>>
                  /\ \A k \in 1..Len(manifest[1].content) :
                        manifest[1].content[k] \in DOMAIN segfiles

\* ffmpeg is about to run on a manifest of two or more entries
C13_Witness ==
    \E t \in Threads :
        /\ pc[t] = "ffmpeg"
        /\ manifest # <<>>
        /\ Len(manifest[1].content) >= 2

\* the Job on thread t has met an error the handler caught, or a send that raised
Errored(t) == hist[t].cause \notin {"", "complete", "usage"}

\* the no-retry part of C14 alone, with failure taken as the code takes it
\* (an exception, a non-zero exit): one navigation, one request per segment
\* index, one ffmpeg run, and the Job is over at its first error
NoRetryOnError ==
    \A t \in Threads :
        /\ hist[t].navigations <= 1
        /\ hist[t].remuxes <= 1
        /\ \A k, l \in 1..Len(SegReqs(t)) : SegReqs(t)[k].idx = SegReqs(t)[l].idx => k = l
        /\ Errored(t) => pc[t] = "done"

\* C14: nothing is retried, and the first failure of a Job, a segment
\* answered non-2xx included, is followed by no further fetch and no ffmpeg
\* run of that Job.
C14_NoRetryFirstFailureEnds ==
    /\ NoRetryOnError
    /\ \A t \in Threads :
          \A k \in BadFetches(t) : k = Len(SegReqs(t)) /\ hist[t].remuxes = 0 /\ ~InRemux(t)

\* C15: the cleanup of a Job deletes no file that another Job wrote.
C15_CleanupOwnFilesOnly ==
    \A t \in Threads :
        \A i \in 0..(MaxSegs + 1) : <<"delete", SegFile(i)>> \notin hist[t].foreign

\* C16: a Job makes at most one variant request, and the playlist it takes
\* to the segment fetch stage and beyond is a media playlist, never a master.
C16_VariantDepthOne ==
    \A t \in Threads :
        /\ Len(VariantReqs(t)) <= 1
        /\ Resolved(t) => ~M3u8Loads(job[t].pl_text).is_variant
        /\ M3u8Loads(job[t].pl_text).is_variant => (hist[t].remuxes = 0 /\ ~InRemux(t))

IsErrorReply(m) == m.kind \in {"timeout", "ffmpeg_error", "error"}

\* C18: a Job that got past the argument check and has ended has reported
\* exactly one final outcome: the video and no error message, or one error
\* message and no video.
C18_OneFinalOutcome ==
    \A t \in Threads :
        Terminal(t) =>
            LET errors == Len(SelectSeq(chat[t].replies, IsErrorReply))
            IN  \/ Len(chat[t].videos) = 1 /\ errors = 0
                \/ Len(chat[t].videos) = 0 /\ errors = 1

\* C17: the cookies of a Job are captured once, by the navigation that
\* observed the playlist response and before any request of the Job, and are
\* not written again while the Job lasts; the header built from them is
\* written once, from the captured cookies, and not again.
C17_CapturedOnce ==
    [][\A t \in Threads :
          /\ hist[t].navigations <= 1
          /\ job'[t].cookies # job[t].cookies =>
                \/ /\ pc[t] = "navigate" /\ pc'[t] = "playlist"
                   /\ hist[t].navigations = 0 /\ hist'[t].navigations = 1
                   /\ hist[t].reqs = <<>> /\ hist'[t].reqs = <<>>
                   /\ job'[t].master_text # <<>>
                \/ pc[t] = "done" /\ pc'[t] = "idle"
          /\ job'[t].cookie_hdr # job[t].cookie_hdr =>
                \/ /\ pc[t] = "playlist" /\ pc'[t] = "fetch"
                   /\ job[t].cookie_hdr = <<>>
                   /\ job'[t].cookie_hdr = BuildCookieHeader(job[t].cookies)
                \/ pc[t] = "done" /\ pc'[t] = "idle"]_vars

C17_Witness ==
    \E t \in Threads :
        /\ pc[t] = "ffmpeg"
        /\ Len(job[t].cookies) = 2
        /\ job[t].cookie_hdr # <<>>
        /\ Len(VariantReqs(t)) = 1
        /\ Len(SegReqs(t)) >= 1

\* the seg*.ts files in the directory that the Job on thread t did not write
Stale(t) == {i \in DOMAIN segfiles : segfiles[i].writer # job[t].id}

\* C19: with one Job at a time, the manifest a Job of N segments hands to
\* ffmpeg is its own, lists the indices 0..N-1 and nothing else, and every
\* file it lists was written by this Job; a file left by an earlier Job is
\* not listed.
C19_ManifestOwnSegments ==
    \A t \in Threads :
        pc[t] = "ffmpeg" =>
            LET n == Len(job[t].segments)
                listed == Range(manifest[1].content)
            IN  /\ manifest[1].writer = job[t].id
                /\ listed = 0..(n - 1)
                /\ \A i \in listed : /\ i \in DOMAIN segfiles
                                     /\ segfiles[i].writer = job[t].id
                                     /\ SegFile(i) \in hist[t].wrote
                /\ listed \cap Stale(t) = {}

C19_Witness ==
    \E t \in Threads :
        /\ pc[t] = "ffmpeg"
        /\ Len(job[t].segments) >= 1
        /\ \E i \in Stale(t) : i >= Len(job[t].segments)

\* the name/value pairs of a list of cookies, in order
Pairs(list) == [i \in 1..Len(list) |-> [name |-> list[i].name, value |-> list[i].value]]

\* C20: once the header built from a capture of distinct names has been
\* split again, the pairs obtained are, in order, the captured cookies of
\* non-empty name and value, names and values unchanged, and the second
\* context holds exactly those.
C20_CookieRoundTrip ==
    \A t \in Threads :
        pc[t] = "parsed" =>
            LET kept == SelectSeq(job[t].cookies, CookieTruthy)
                host == HostName(job[t].hls_url)
            IN  /\ Pairs(ParseCookieHeader(job[t].cookie_hdr, host)) = Pairs(kept)
                /\ {[name |-> c.name, value |-> c.value] : c \in job[t].jar} = Range(Pairs(kept))
                /\ Cardinality(job[t].jar) = Len(kept)

C20_Witness ==
    \E t \in Threads :
        /\ pc[t] = "parsed"
        /\ Len(job[t].cookies) = 2
        /\ Cardinality(job[t].jar) = 1
        /\ \E c \in job[t].jar : c.value = <<"x", "=">>
        /\ \E i \in 1..2 : job[t].cookies[i].value = <<>>

====
